---- MODULE Spec2Model ----
(***************************************************************************)
(* Model of the warehouse ETL pipeline: the incremental extractor          *)
(* (etl_pipeline/extract/data_extractor.py) with its checkpoint file, and  *)
(* the inventory metrics engine (etl_pipeline/transform/                   *)
(* inventory_metrics.py).                                                  *)
(*                                                                         *)
(* Time is a wall clock counted in whole units 0..MaxTime.  A DataFrame is *)
(* modelled by the set of its rows, a row by a record of its cells.        *)
(***************************************************************************)
EXTENDS Integers, FiniteSets, Sequences, TLC

\* ------------------------------------------------------------------ bounds
MaxTime == 1
MaxRows == 1
MaxSourceRows == 2
LookbackDays == 1

Procs == {1, 2}
Times == 0..MaxTime

Min(a, b) == IF a <= b THEN a ELSE b
Max(a, b) == IF a >= b THEN a ELSE b

\* ------------------------------------------------------------ python values
\* None, and the string datetime.isoformat() gives for the clock value t.
None == [py |-> "None"]
isoformat(t) == [py |-> "str", iso |-> t]
to_datetime(s) == s.iso

\* The cell pandas holds for a missing value (NaN, NaT, None), and a text
\* cell no timestamp can be parsed from; timestamps are never negative.
Null == -1
Unparsable == -2
\* pd.to_datetime(cell, errors="coerce")
coerce(c) == IF c = Unparsable THEN Null ELSE c

\* A checkpoint dict, and the other values json.loads can return.
PyDict(pg, csv) == [type |-> "dict", postgres_last |-> pg, csv_last |-> csv]
PyList == [type |-> "list"]
EmptyDict == PyDict(None, None)

\* ------------------------------------------------------- state file contents
Absent == [kind |-> "absent"]
Garbage == [kind |-> "garbage"]
Truncated == [kind |-> "truncated"]
json_dumps(v) == [kind |-> "json", value |-> v]
JsonParses(content) == content.kind = "json"
json_loads(content) == content.value

LoadStateIgnoresFile(content) == EmptyDict

\* DataExtractor._load_state: {} when the file is absent or json.loads raises,
\* else whatever json.loads returns (a dict, or any other JSON value).
_load_state(content) ==
    IF content.kind = "absent" THEN EmptyDict
    ELSE IF JsonParses(content) THEN json_loads(content) ELSE EmptyDict

\* state.get(key, None): only a dict has .get
HasGet(st) == st.type = "dict"
StateGet(st, key) == IF key = "postgres_last" THEN st.postgres_last ELSE st.csv_last

\* ------------------------------------------------------------ DataFrames
\* The engines work on DataFrames with a run-time column set: a frame is its
\* set of column names and the sequence of its rows, a row a function from
\* the column names to cells.  A numeric cell is a float: a fraction in
\* lowest terms, inf, or NaN.  A datetime cell is a timestamp or NaT.
RECURSIVE GCD(_, _)
GCD(a, b) == IF b = 0 THEN a ELSE GCD(b, a % b)
Abs(n) == IF n < 0 THEN -n ELSE n

NaN == [float |-> "nan"]
Inf == [float |-> "inf"]
Frac(n, d) == LET g == GCD(Abs(n), d) IN [float |-> "num", num |-> n \div g, den |-> d \div g]
Float(n) == Frac(n, 1)
IsNum(a) == a.float = "num"

FAdd(a, b) == IF IsNum(a) /\ IsNum(b) THEN Frac(a.num * b.den + b.num * a.den, a.den * b.den) ELSE NaN
FMul(a, b) == IF IsNum(a) /\ IsNum(b) THEN Frac(a.num * b.num, a.den * b.den) ELSE NaN
\* numpy division: x / 0 is inf (nan for 0 / 0), never an exception
FDiv(a, b) ==
    IF ~(IsNum(a) /\ IsNum(b)) THEN NaN
    ELSE IF b.num = 0 THEN (IF a.num = 0 THEN NaN ELSE Inf)
    ELSE IF b.num > 0 THEN Frac(a.num * b.den, a.den * b.num)
    ELSE Frac(-(a.num * b.den), a.den * (-b.num))
\* a > 0; False for NaN
FPositive(a) == a = Inf \/ (IsNum(a) /\ a.num > 0)
fillna(a, v) == IF a = NaN THEN v ELSE a

NaT == [datetime |-> "NaT"]
Timestamp(t) == [datetime |-> "ts", t |-> t]

EmptyFrame == [columns |-> {}, rows |-> <<>>]
\* pd.DataFrame(list of dicts), every dict with the keys cols
DataFrame(cols, rows) == IF Len(rows) = 0 THEN EmptyFrame ELSE [columns |-> cols, rows |-> rows]
\* DataFrame.empty
empty(df) == Len(df.rows) = 0

RECURSIVE SelectRows(_, _)
SelectRows(rows, keep) ==
    IF Len(rows) = 0 THEN <<>>
    ELSE (IF Head(rows) \in keep THEN <<Head(rows)>> ELSE <<>>) \o SelectRows(Tail(rows), keep)

\* df[mask], the mask given by the set of rows it keeps
Filter(df, keep) == [columns |-> df.columns, rows |-> SelectRows(df.rows, keep)]

\* df[name] = series, the series given by its values in row order
WithColumn(df, name, series) ==
    [columns |-> df.columns \cup {name},
     rows |-> [i \in DOMAIN df.rows |->
                 [c \in df.columns \cup {name} |->
                     IF c = name THEN series[i] ELSE df.rows[i][c]]]]

\* A series computed row by row is written [i \in DOMAIN df.rows |-> ...].

\* df[[c for c in cols if c in df.columns]]
Project(df, cols) ==
    [columns |-> df.columns \cap cols,
     rows |-> [i \in DOMAIN df.rows |-> [c \in df.columns \cap cols |-> df.rows[i][c]]]]

RECURSIVE SortedSeq(_)
SortedSeq(S) ==
    IF S = {} THEN <<>>
    ELSE LET m == CHOOSE x \in S : \A y \in S : x <= y IN <<m>> \o SortedSeq(S \ {m})

RECURSIVE FSum(_, _)
FSum(rows, col) == IF Len(rows) = 0 THEN Float(0) ELSE FAdd(Head(rows)[col], FSum(Tail(rows), col))

RECURSIVE TMax(_, _)
TMax(rows, col) ==
    IF Len(rows) = 0 THEN NaT
    ELSE LET h == Head(rows)[col]
             m == TMax(Tail(rows), col)
         IN IF h = NaT THEN m ELSE IF m = NaT THEN h ELSE IF h.t >= m.t THEN h ELSE m

\* The rows of one group, and the sorted group keys (groupby sorts them).
Group(df, key, k) == SelectRows(df.rows, {r \in {df.rows[i] : i \in DOMAIN df.rows} : r[key] = k})
GroupKeys(df, key) == SortedSeq({df.rows[i][key] : i \in DOMAIN df.rows})

\* df.groupby(key)[col].sum().reset_index().rename(columns={col: as})
GroupSum(df, key, col, as) ==
    LET keys == GroupKeys(df, key) IN
    [columns |-> {key, as},
     rows |-> [i \in DOMAIN keys |->
                 [c \in {key, as} |->
                     IF c = key THEN keys[i] ELSE FSum(Group(df, key, keys[i]), col)]]]

\* df.groupby(key)[col].max().reset_index().rename(columns={col: as})
GroupMax(df, key, col, as) ==
    LET keys == GroupKeys(df, key) IN
    [columns |-> {key, as},
     rows |-> [i \in DOMAIN keys |->
                 [c \in {key, as} |->
                     IF c = key THEN keys[i] ELSE TMax(Group(df, key, keys[i]), col)]]]

\* The missing value merge puts in a column of the right frame.
Missing(col) == IF col = "last_movement" THEN NaT ELSE NaN

\* left.merge(right, how="left", on=key), right with one row per key: a
\* column name the two frames share, other than the key, is given the
\* suffix _x for the left frame's column and _y for the right frame's.
Merge(left, right, key) ==
    LET shared == (left.columns \cap right.columns) \ {key}
        lname(c) == IF c \in shared THEN c \o "_x" ELSE c
        rname(c) == IF c \in shared THEN c \o "_y" ELSE c
        rcols == right.columns \ {key}
        cols == {lname(c) : c \in left.columns} \cup {rname(c) : c \in rcols}
        match(l) == {j \in DOMAIN right.rows : right.rows[j][key] = l[key]}
        cell(l, c) ==
            IF \E lc \in left.columns : lname(lc) = c
            THEN l[CHOOSE lc \in left.columns : lname(lc) = c]
            ELSE LET rc == CHOOSE x \in rcols : rname(x) = c IN
                 IF match(l) = {} THEN Missing(rc)
                 ELSE right.rows[CHOOSE j \in match(l) : TRUE][rc]
    IN [columns |-> cols,
        rows |-> [i \in DOMAIN left.rows |-> [c \in cols |-> cell(left.rows[i], c)]]]

\* ------------------------------------------------- InventoryMetrics.run
\* str.lower() on the movement types the model uses.
lower(s) ==
    CASE s = "OUT" -> "out"
      [] s = "Sale" -> "sale"
      [] s = "IN" -> "in"
      [] OTHER -> s

OutgoingTypes == {"out", "sale", "dispatch", "issued"}

\* dead_stock_days, the default of cfg.get("dead_stock_days", 180)
dead_stock_days == 180

\* What run does: return a frame, or raise.
Returned(df) == [raised |-> "none", frame |-> df]
Raised(e) == [raised |-> e, frame |-> EmptyFrame]

\* Lines 26-31: one row per product, quantity summed, unit_cost averaged.
ProductTotals(df) ==
    LET keys == GroupKeys(df, "product_id")
        agg == [columns |-> {"product_id", "quantity", "unit_cost"},
                rows |-> [i \in DOMAIN keys |->
                    LET g == Group(df, "product_id", keys[i]) IN
                    [c \in {"product_id", "quantity", "unit_cost"} |->
                        CASE c = "product_id" -> keys[i]
                          [] c = "quantity" -> FSum(g, "quantity")
                          [] c = "unit_cost" -> FDiv(FSum(g, "unit_cost"), Float(Len(g)))]]]
        value(r) == FMul(r["quantity"], fillna(r["unit_cost"], Float(0)))
    IN WithColumn(agg, "inventory_value", [i \in DOMAIN agg.rows |-> value(agg.rows[i])])

\* Lines 33-39 and 41-42: the cogs_quantity column.  Line 34 creates it, so
\* the merge of line 39 meets the name in both frames.
Outs(movements_df) ==
    LET isOut(r) == lower(r["movement_type"]) \in OutgoingTypes
    IN Filter(movements_df, {movements_df.rows[i] : i \in {j \in DOMAIN movements_df.rows :
                                                            isOut(movements_df.rows[j])}})

HasOuts(movements_df) ==
    /\ ~empty(movements_df)
    /\ "movement_type" \in movements_df.columns
    /\ ~empty(Outs(movements_df))

WithCogs(df, movements_df) ==
    LET df0 == WithColumn(df, "cogs_quantity", [i \in DOMAIN df.rows |-> Float(0)])
        cogs_df == GroupSum(Outs(movements_df), "product_id", "quantity", "cogs_quantity")
    IN IF HasOuts(movements_df) THEN Merge(df0, cogs_df, "product_id") ELSE df0

\* Line 40: df["cogs_quantity"] = df["cogs_quantity"].fillna(0)
FillCogs(df) ==
    LET filled(r) == fillna(r["cogs_quantity"], Float(0))
    IN WithColumn(df, "cogs_quantity", [i \in DOMAIN df.rows |-> filled(df.rows[i])])

\* Lines 44-48: turnover_ratio and doh.
WithRatios(df) ==
    LET turnover(r) == IF FPositive(r["quantity"])
                       THEN FDiv(r["cogs_quantity"], r["quantity"]) ELSE NaN
        doh(r) == IF FPositive(r["turnover_ratio"])
                  THEN FDiv(Float(365), r["turnover_ratio"]) ELSE NaN
        df1 == WithColumn(df, "turnover_ratio", [i \in DOMAIN df.rows |-> turnover(df.rows[i])])
    IN WithColumn(df1, "doh", [i \in DOMAIN df1.rows |-> doh(df1.rows[i])])

\* Lines 50-61: dead_stock, from the last movement of each product.
WithDeadStock(df, movements_df, tcol, now) ==
    LET df0 == WithColumn(df, "dead_stock", [i \in DOMAIN df.rows |-> FALSE])
        last_movement == GroupMax(movements_df, "product_id", tcol, "last_movement")
        merged == Merge(df0, last_movement, "product_id")
        days(r) == IF r["last_movement"] = NaT THEN NaN ELSE Float(now - r["last_movement"].t)
        dead(r) == IsNum(r["days_since_last_movement"])
                   /\ r["days_since_last_movement"].num > dead_stock_days
        df1 == WithColumn(merged, "days_since_last_movement",
                          [i \in DOMAIN merged.rows |-> days(merged.rows[i])])
    IN IF ~empty(movements_df) /\ tcol \in movements_df.columns
       THEN WithColumn(df1, "dead_stock", [i \in DOMAIN df1.rows |-> dead(df1.rows[i])])
       ELSE df0

out_cols == {"product_id", "quantity", "inventory_value", "turnover_ratio", "doh", "dead_stock"}

\* InventoryMetrics.run(inventory_df, movements_df), the clock reading now.
\* Reading, grouping by or aggregating a column the frame does not have
\* raises KeyError.
InventoryMetrics_run(inventory_df, movements_df, now) ==
    IF empty(inventory_df) THEN Returned(EmptyFrame)
    ELSE IF ~({"product_id", "quantity", "unit_cost"} \subseteq inventory_df.columns)
    THEN Raised("KeyError")
    ELSE LET merged == WithCogs(ProductTotals(inventory_df), movements_df) IN
         IF HasOuts(movements_df) /\ "cogs_quantity" \notin merged.columns
         THEN Raised("KeyError")
         ELSE LET df == IF HasOuts(movements_df) THEN FillCogs(merged) ELSE merged
              IN Returned(Project(WithDeadStock(WithRatios(df), movements_df,
                                                "modified_date", now), out_cols))

\* --------------------------------------------------- FinancialMetrics.run
\* a <= b on floats; a comparison with NaN is False.
FLe(a, b) ==
    /\ a # NaN /\ b # NaN
    /\ \/ b = Inf
       \/ a # Inf /\ a.num * b.den <= b.num * a.den

\* Line 27: self.cfg.get("holding_cost_rate", 0.20)
holding_cost_rate == Frac(1, 5)

\* Lines 19-28: quantity and unit_cost put in when the frame lacks them,
\* then inventory_value and annual_holding_cost, row by row.
WithValue(df) ==
    LET df1 == IF "quantity" \in df.columns THEN df
               ELSE WithColumn(df, "quantity", [i \in DOMAIN df.rows |-> Float(0)])
        df2 == IF "unit_cost" \in df1.columns THEN df1
               ELSE WithColumn(df1, "unit_cost", [i \in DOMAIN df1.rows |-> Float(0)])
        df3 == WithColumn(df2, "inventory_value",
                   [i \in DOMAIN df2.rows |-> FMul(df2.rows[i]["quantity"], df2.rows[i]["unit_cost"])])
    IN WithColumn(df3, "annual_holding_cost",
           [i \in DOMAIN df3.rows |-> FMul(df3.rows[i]["inventory_value"], holding_cost_rate)])

\* Line 31: sort_values("inventory_value", ascending=False).  The order of
\* rows of equal value is the sort algorithm's: any descending order.
sort_values(rows) ==
    {order \in [DOMAIN rows -> DOMAIN rows] :
        /\ \A i, j \in DOMAIN rows : i # j => order[i] # order[j]
        /\ \A i, j \in DOMAIN rows :
              i < j => FLe(rows[order[j]]["inventory_value"], rows[order[i]]["inventory_value"])}

labelExclusive(x) ==
    IF x # NaN /\ ~FLe(Frac(4, 5), x) THEN "A"
    ELSE IF x # NaN /\ ~FLe(Frac(19, 20), x) THEN "B" ELSE "C"

\* Lines 36-41
label(x) ==
    IF FLe(x, Frac(4, 5)) THEN "A" ELSE IF FLe(x, Frac(19, 20)) THEN "B" ELSE "C"

\* Lines 31-43: the products in the order given, each with its class.
Abc(df, order) ==
    LET sums == GroupSum(df, "product_id", "inventory_value", "inventory_value")
        sorted == [i \in DOMAIN order |-> sums.rows[order[i]]]
        cum_value(i) == FSum(SubSeq(sorted, 1, i), "inventory_value")
        total == FSum(sorted, "inventory_value")
        pct_cum(i) == FDiv(cum_value(i), IF FPositive(total) THEN total ELSE Float(1))
    IN [columns |-> {"product_id", "class"},
        rows |-> [i \in DOMAIN sorted |->
                    [c \in {"product_id", "class"} |->
                        IF c = "product_id" THEN sorted[i]["product_id"] ELSE label(pct_cum(i))]]]

\* The orders line 31 can leave the products of inventory_df in.
AbcOrders(inventory_df) ==
    IF empty(inventory_df) \/ "product_id" \notin inventory_df.columns THEN {<<>>}
    ELSE sort_values(GroupSum(WithValue(inventory_df), "product_id",
                              "inventory_value", "inventory_value").rows)

\* FinancialMetrics.run(inventory_df), line 31 having sorted into order.
\* Grouping by a column the frame does not have raises KeyError.
FinancialMetrics_run(inventory_df, order) ==
    IF empty(inventory_df) THEN Returned(EmptyFrame)
    ELSE IF "product_id" \notin inventory_df.columns THEN Raised("KeyError")
    ELSE LET df == WithValue(inventory_df)
         IN Returned(Merge(df, Abc(df, order), "product_id"))

\* ------------------------------------------------ WarehousePerformance.run
\* The missing value of a column: NaN in a float column, NaT in a column of
\* timestamps, Null in a column of identifiers.
NA(col) ==
    CASE col = "quantity" -> NaN
      [] col = "modified_date" -> NaT
      [] OTHER -> Null
\* df.dropna(subset=cols)
dropna(df, cols) ==
    Filter(df, {r \in {df.rows[i] : i \in DOMAIN df.rows} : \A c \in cols : r[c] # NA(c)})

\* left.merge(right, how="left", left_on=lkey, right_on=rkey): every left
\* row once per right row of the same key, or once with the right columns
\* missing; a column name the two frames share gets the suffixes _x and _y.
RECURSIVE Flatten(_)
Flatten(seqs) == IF Len(seqs) = 0 THEN <<>> ELSE Head(seqs) \o Flatten(Tail(seqs))

MergeOn(left, right, lkey, rkey) ==
    LET shared == left.columns \cap right.columns
        lname(c) == IF c \in shared THEN c \o "_x" ELSE c
        rname(c) == IF c \in shared THEN c \o "_y" ELSE c
        cols == {lname(c) : c \in left.columns} \cup {rname(c) : c \in right.columns}
        matches(l) == SelectRows(right.rows,
                          {r \in {right.rows[j] : j \in DOMAIN right.rows} : r[rkey] = l[lkey]})
        cell(l, r, c) ==
            IF \E lc \in left.columns : lname(lc) = c
            THEN l[CHOOSE lc \in left.columns : lname(lc) = c]
            ELSE r[CHOOSE rc \in right.columns : rname(rc) = c]
        missing == [c \in right.columns |-> NA(c)]
        joined(l) ==
            IF Len(matches(l)) = 0 THEN << [c \in cols |-> cell(l, missing, c)] >>
            ELSE [j \in DOMAIN matches(l) |-> [c \in cols |-> cell(l, matches(l)[j], c)]]
    IN [columns |-> cols,
        rows |-> Flatten([i \in DOMAIN left.rows |-> joined(left.rows[i])])]

\* Lines 22-25: no site_id column, one row for all the inventory.
AllSites(inv, capacity) ==
    LET total == IF "quantity" \in inv.columns THEN FSum(inv.rows, "quantity") ELSE Float(0)
    IN [columns |-> {"site_id", "quantity", "capacity", "utilization"},
        rows |-> << [c \in {"site_id", "quantity", "capacity", "utilization"} |->
                       CASE c = "site_id" -> "ALL"
                         [] c = "quantity" -> total
                         [] c = "capacity" -> Float(capacity)
                         [] c = "utilization" -> FDiv(total, Float(capacity))] >>]

\* Lines 27-30: one row per site (groupby leaves out a null site_id), with
\* the configured capacity and the utilization.
SiteUtilization(inv, capacity) ==
    LET inv_agg == GroupSum(dropna(inv, {"site_id"}), "site_id", "quantity", "quantity")
        df1 == WithColumn(inv_agg, "capacity", [i \in DOMAIN inv_agg.rows |-> Float(capacity)])
    IN WithColumn(df1, "utilization",
           [i \in DOMAIN df1.rows |-> FDiv(df1.rows[i]["quantity"], df1.rows[i]["capacity"])])

\* Line 33
HasSites(movements_df) ==
    /\ ~empty(movements_df)
    /\ {"from_site", "to_site"} \subseteq movements_df.columns

\* Lines 34-35: the summed quantity of every (from_site, to_site) pair, in
\* the order of the pairs, the two columns renamed src and dst.
Transfers(movements_df) ==
    LET moves == dropna(movements_df, {"from_site", "to_site", "quantity"})
        pairs(src) == SortedSeq({moves.rows[i]["to_site"] :
                                    i \in {j \in DOMAIN moves.rows : moves.rows[j]["from_site"] = src}})
        of(src, dst) == SelectRows(moves.rows,
                            {r \in {moves.rows[i] : i \in DOMAIN moves.rows} :
                                r["from_site"] = src /\ r["to_site"] = dst})
        srcs == SortedSeq({moves.rows[i]["from_site"] : i \in DOMAIN moves.rows})
    IN [columns |-> {"src", "dst", "quantity"},
        rows |-> Flatten([i \in DOMAIN srcs |->
                    [j \in DOMAIN pairs(srcs[i]) |->
                        [c \in {"src", "dst", "quantity"} |->
                            CASE c = "src" -> srcs[i]
                              [] c = "dst" -> pairs(srcs[i])[j]
                              [] c = "quantity" -> FSum(of(srcs[i], pairs(srcs[i])[j]), "quantity")]]])]

\* WarehousePerformance.run(inventory_df, movements_df), default_capacity
\* being capacity.  groupby("site_id").quantity on a frame with no quantity
\* column raises AttributeError; dropna on a missing column raises KeyError.
WarehousePerformance_run(inventory_df, movements_df, capacity) ==
    IF empty(inventory_df) THEN Returned(EmptyFrame)
    ELSE IF "site_id" \notin inventory_df.columns THEN Returned(AllSites(inventory_df, capacity))
    ELSE IF "quantity" \notin inventory_df.columns THEN Raised("AttributeError")
    ELSE IF HasSites(movements_df) /\ "quantity" \notin movements_df.columns THEN Raised("KeyError")
    ELSE LET inv_agg == SiteUtilization(inventory_df, capacity)
             transfers == IF HasSites(movements_df) THEN Transfers(movements_df) ELSE EmptyFrame
         IN IF ~empty(transfers)
            THEN Returned(MergeOn(inv_agg, transfers, "site_id", "src"))
            ELSE Returned(inv_agg)

\* --------------------------------------------------- MovementAnalytics.run
\* Timestamps count days: .dt.date of a timestamp is its day.
FSub(a, b) == IF IsNum(a) /\ IsNum(b) THEN Frac(a.num * b.den - b.num * a.den, a.den * b.den) ELSE NaN

RECURSIVE FMax(_, _)
FMax(rows, col) ==
    IF Len(rows) = 1 THEN Head(rows)[col]
    ELSE LET m == FMax(Tail(rows), col) IN IF FLe(m, Head(rows)[col]) THEN Head(rows)[col] ELSE m

LatestIsNow(df, tcol, now) == Timestamp(now)

\* Line 39: latest = df[tcol].max(); the wall clock now is not read.
Latest(df, tcol, now) == TMax(df.rows, tcol)

\* Lines 29-35: the summed quantity of every (product, day), then the mean
\* and the maximum of a product's days.
DailyStats(df, tcol) ==
    LET keys == GroupKeys(df, "product_id")
        days(p) == SortedSeq({r[tcol].t : r \in {df.rows[i] : i \in DOMAIN df.rows} \cap
                                 {x \in {df.rows[i] : i \in DOMAIN df.rows} : x["product_id"] = p}})
        daily(p) == [d \in DOMAIN days(p) |->
                        [quantity |-> FSum(SelectRows(df.rows,
                            {r \in {df.rows[i] : i \in DOMAIN df.rows} :
                                r["product_id"] = p /\ r[tcol].t = days(p)[d]}), "quantity")]]
    IN [columns |-> {"product_id", "avg_daily", "peak_daily"},
        rows |-> [i \in DOMAIN keys |->
                    [c \in {"product_id", "avg_daily", "peak_daily"} |->
                        CASE c = "product_id" -> keys[i]
                          [] c = "avg_daily" -> FDiv(FSum(daily(keys[i]), "quantity"),
                                                     Float(Len(daily(keys[i]))))
                          [] c = "peak_daily" -> FMax(daily(keys[i]), "quantity")]]]

\* Lines 40-41: the rows of the two windows measured back from latest.
Window1(df, tcol, latest) ==
    Filter(df, {r \in {df.rows[i] : i \in DOMAIN df.rows} : r[tcol].t >= latest.t - 30})
Window2(df, tcol, latest) ==
    Filter(df, {r \in {df.rows[i] : i \in DOMAIN df.rows} :
                   r[tcol].t >= latest.t - 60 /\ r[tcol].t < latest.t - 30})

\* Lines 43-53: w1_qty, w2_qty (0 for a product with no row in the window)
\* and trend_pct, None unless w2_qty > 0.
WithTrend(out, w1, w2) ==
    LET qty(w, p) == FSum(Group(w, "product_id", p), "quantity")
        df1 == WithColumn(out, "w1_qty", [i \in DOMAIN out.rows |-> qty(w1, out.rows[i]["product_id"])])
        df2 == WithColumn(df1, "w2_qty", [i \in DOMAIN df1.rows |-> qty(w2, df1.rows[i]["product_id"])])
    IN WithColumn(df2, "trend_pct",
           [i \in DOMAIN df2.rows |->
               IF FPositive(df2.rows[i]["w2_qty"])
               THEN FDiv(FSub(df2.rows[i]["w1_qty"], df2.rows[i]["w2_qty"]), df2.rows[i]["w2_qty"])
               ELSE None])

\* MovementAnalytics.run(movements_df), the wall clock reading now.  dropna
\* on a column the frame does not have raises KeyError.
MovementAnalytics_run(movements_df, now) ==
    IF empty(movements_df) THEN Returned(EmptyFrame)
    ELSE IF ~({"modified_date", "product_id"} \subseteq movements_df.columns) THEN Raised("KeyError")
    ELSE LET df == dropna(movements_df, {"modified_date", "product_id"})
             latest == Latest(df, "modified_date", now)
         IN IF empty(df)
            THEN Returned([columns |-> {"product_id", "avg_daily", "peak_daily",
                                        "w1_qty", "w2_qty", "trend_pct"},
                           rows |-> <<>>])
            ELSE Returned(WithTrend(DailyStats(df, "modified_date"),
                                    Window1(df, "modified_date", latest),
                                    Window2(df, "modified_date", latest)))

\* ---------------------------------------------------------- engine inputs
MaxInvRows == 2
MaxMovRows == 2
EngineNow == 200

InvCells == {"product_id", "quantity", "unit_cost"}
MovCells == {"product_id", "quantity", "movement_type", "modified_date"}

InvRow(p, q, u) ==
    [c \in InvCells |->
        CASE c = "product_id" -> p [] c = "quantity" -> Float(q) [] c = "unit_cost" -> Float(u)]
MovRow(p, q, m, t) ==
    [c \in MovCells |->
        CASE c = "product_id" -> p [] c = "quantity" -> Float(q)
          [] c = "movement_type" -> m [] c = "modified_date" -> Timestamp(t)]

EngineInvRows == {InvRow(p, q, u) : p \in {1, 2}, q \in {0, 100}, u \in {5, 10}}
EngineMovRows == {MovRow(p, 50, m, t) : p \in {1, 2}, m \in {"out", "Sale", "in"}, t \in {10, 195}}

SeqsUpTo(S, n) == UNION {[1..k -> S] : k \in 0..n}

\* ------------------------------------------------------------------ sources
InventoryRows == [product_id : {1}, last_updated : Times]
MovementRows == [product_id : {1}, modified_date : Times]

VARIABLES
    clock,            \* the wall clock datetime.utcnow() reads
    state_file,       \* content of incremental.state_file
    inventory_table,  \* rows of sources.postgres.incremental_table
    movements_csv,    \* rows of the file at sources.csv.path
    quiet,            \* no source was written to since the last extract() began
    pc,               \* per invocation: position in extract()
    cfg,              \* per invocation: sources.postgres.enabled, sources.csv.enabled
    state,            \* per invocation: local variable state of extract()
    loaded,           \* per invocation: what _load_state returned
    inventory_df,     \* per invocation: local variable inventory_df
    movements_df,     \* per invocation: local variable movements_df
    pg_read,          \* per invocation: outcome of the Postgres read
    csv_read,         \* per invocation: outcome of the CSV read
    exception,        \* per invocation: the exception extract() raised, if any
    started_at,       \* per invocation: the clock when extract() was entered
    rerun,            \* per invocation: the run before this one returned with both
                      \* watermarks advanced and no source was written to since it began
    overlapped,       \* per invocation: another invocation was inside extract() meanwhile
    engine_inventory, \* the inventory frame handed to the engine
    engine_movements, \* the movement frame handed to the engine
    inventory_summary, \* what InventoryMetrics.run did with them
    movement_summary, \* what MovementAnalytics.run did
    warehouse_summary,\* what WarehousePerformance.run did
    financial_summary,\* what FinancialMetrics.run did
    engine_cfg,       \* the configuration values the engines read
    main_pc,          \* position of main(): idle, extract, running, finished, failed
    sink,             \* per metric table: what save_parquet did in this run of main()
    prior             \* how the run of main() before this one ended, and what it had extracted

vars == <<clock, state_file, inventory_table, movements_csv, quiet, pc, cfg, state,
          loaded, inventory_df, movements_df, pg_read, csv_read, exception,
          started_at, rerun, overlapped, engine_inventory, engine_movements,
          inventory_summary, movement_summary, warehouse_summary, financial_summary,
          engine_cfg, main_pc, sink, prior>>

\* The engines' side of the state, and the extractor's.
engVars == <<engine_inventory, engine_movements, inventory_summary, movement_summary,
             warehouse_summary, financial_summary, engine_cfg>>
extVars == <<clock, state_file, inventory_table, movements_csv, quiet, pc, cfg, state,
             loaded, inventory_df, movements_df, pg_read, csv_read, exception,
             started_at, rerun, overlapped>>
mainVars == <<main_pc, sink, prior>>
NotRun == [raised |-> "pending", frame |-> EmptyFrame]

\* main.py 46-49: the metric tables in the order save_parquet is called.
Tables == <<"inventory_summary", "movement_summary", "warehouse_summary", "financial_summary">>
NoPrior == [ended |-> "none", returned |-> FALSE, engine |-> "pending",
            checkpoint |-> Absent, inventory |-> {}, movements |-> {}]
\* No run of main() has begun.
MainNotRun ==
    /\ main_pc = "idle"
    /\ sink = [i \in DOMAIN Tables |-> "pending"]
    /\ prior = NoPrior

\* cfg.get("default_capacity", 100000) with the option left out.
default_capacity == 100000
DefaultCfg == [default_capacity |-> default_capacity]

\* The state before main() has called any engine, and the state of a
\* process in which extract() is not looked at, the clock reading t.
EnginesNotRun ==
    /\ engine_inventory = EmptyFrame
    /\ engine_movements = EmptyFrame
    /\ inventory_summary = NotRun
    /\ movement_summary = NotRun
    /\ warehouse_summary = NotRun
    /\ financial_summary = NotRun
    /\ engine_cfg = DefaultCfg
    /\ MainNotRun
ExtractorNotRun(t) ==
    /\ MainNotRun
    /\ clock = t
    /\ state_file = Absent
    /\ inventory_table = {}
    /\ movements_csv = {}
    /\ quiet = TRUE
    /\ pc = [p \in Procs |-> "idle"]
    /\ cfg = [p \in Procs |-> [postgres_enabled |-> FALSE, csv_enabled |-> FALSE,
                                default_lookback_days |-> LookbackDays]]
    /\ state = [p \in Procs |-> EmptyDict]
    /\ loaded = [p \in Procs |-> EmptyDict]
    /\ inventory_df = [p \in Procs |-> {}]
    /\ movements_df = [p \in Procs |-> {}]
    /\ pg_read = [p \in Procs |-> "none"]
    /\ csv_read = [p \in Procs |-> "none"]
    /\ exception = [p \in Procs |-> "none"]
    /\ started_at = [p \in Procs |-> 0]
    /\ rerun = [p \in Procs |-> FALSE]
    /\ overlapped = [p \in Procs |-> FALSE]

locVars == <<cfg, loaded, started_at, overlapped>>

\* The configurations of a run: each source enabled or not, and
\* incremental.default_lookback_days set (to LookbackDays) or left out (Null).
Configs == [postgres_enabled : BOOLEAN, csv_enabled : BOOLEAN,
            default_lookback_days : {LookbackDays}]
NoConfig == [postgres_enabled |-> FALSE, csv_enabled |-> FALSE,
             default_lookback_days |-> LookbackDays]

Active(p) == pc[p] \in {"loaded", "postgres_done", "csv_done"}

\* A state file left by earlier process lifetimes or by hand.
InitialFiles == {Absent, Garbage, json_dumps(PyList)}

Init ==
    /\ clock = 0
    /\ state_file \in InitialFiles
    /\ inventory_table = {}
    /\ movements_csv = {}
    /\ quiet = TRUE
    /\ pc = [p \in Procs |-> "idle"]
    /\ cfg = [p \in Procs |-> NoConfig]
    /\ state = [p \in Procs |-> EmptyDict]
    /\ loaded = [p \in Procs |-> EmptyDict]
    /\ inventory_df = [p \in Procs |-> {}]
    /\ movements_df = [p \in Procs |-> {}]
    /\ pg_read = [p \in Procs |-> "none"]
    /\ csv_read = [p \in Procs |-> "none"]
    /\ exception = [p \in Procs |-> "none"]
    /\ started_at = [p \in Procs |-> 0]
    /\ rerun = [p \in Procs |-> FALSE]
    /\ overlapped = [p \in Procs |-> FALSE]
    /\ EnginesNotRun

\* ------------------------------------------------------------- environment
\* Wall-clock time passes.
Tick ==
    /\ clock < MaxTime
    /\ clock' = clock + 1
    /\ UNCHANGED <<engVars, mainVars>>
    /\ UNCHANGED <<state_file, inventory_table, movements_csv, quiet, pc, locVars,
                   state, inventory_df, movements_df, pg_read, csv_read, exception,
                   rerun>>

\* The warehouse system writes an inventory row; its last_updated comes from
\* the writer's clock, not the extractor's.
InsertInventory(r) ==
    /\ r \notin inventory_table
    /\ Cardinality(inventory_table) < MaxRows
    /\ inventory_table' = inventory_table \cup {r}
    /\ quiet' = FALSE
    /\ rerun' = [p \in Procs |-> FALSE]
    /\ UNCHANGED <<engVars, mainVars>>
    /\ UNCHANGED <<clock, state_file, movements_csv, pc, locVars, state,
                   inventory_df, movements_df, pg_read, csv_read, exception>>

\* A stock movement is appended to the movements file.
AppendMovement(r) ==
    /\ r \notin movements_csv
    /\ Cardinality(movements_csv) < MaxRows
    /\ movements_csv' = movements_csv \cup {r}
    /\ quiet' = FALSE
    /\ rerun' = [p \in Procs |-> FALSE]
    /\ UNCHANGED <<engVars, mainVars>>
    /\ UNCHANGED <<clock, state_file, inventory_table, pc, locVars, state,
                   inventory_df, movements_df, pg_read, csv_read, exception>>

\* ------------------------------------------------------------ extract()
\* The sources whose watermark the run of p set.
Advanced(p) ==
    {s \in {"postgres", "csv"} :
        \/ s = "postgres" /\ pg_read[p] \in {"ok", "error"}
        \/ s = "csv" /\ csv_read[p] \in {"ok", "error"}}

\* Line 29: state = self._load_state(), by an invocation with configuration c.
Load(p, c) ==
    /\ ~Active(p)
    /\ cfg' = [cfg EXCEPT ![p] = c]
    /\ state' = [state EXCEPT ![p] = _load_state(state_file)]
    /\ loaded' = [loaded EXCEPT ![p] = _load_state(state_file)]
    /\ inventory_df' = [inventory_df EXCEPT ![p] = {}]
    /\ movements_df' = [movements_df EXCEPT ![p] = {}]
    /\ pg_read' = [pg_read EXCEPT ![p] = "none"]
    /\ csv_read' = [csv_read EXCEPT ![p] = "none"]
    /\ exception' = [exception EXCEPT ![p] = "none"]
    /\ started_at' = [started_at EXCEPT ![p] = clock]
    /\ rerun' = [rerun EXCEPT ![p] =
                    quiet /\ pc[p] = "done" /\ Advanced(p) = {"postgres", "csv"}]
    /\ quiet' = TRUE
    /\ overlapped' = [q \in Procs |->
                        IF q = p THEN \E o \in Procs \ {p} : Active(o)
                        ELSE overlapped[q] \/ Active(q)]
    /\ pc' = [pc EXCEPT ![p] = "loaded"]
    /\ UNCHANGED <<engVars, mainVars>>
    /\ UNCHANGED <<clock, state_file, inventory_table, movements_csv>>

\* The query of line 44: SELECT * FROM table WHERE inc_col >= :last
ReadSql(table, last) ==
    {r \in table : r.last_updated # Null /\ r.last_updated >= to_datetime(last)}

\* Line 42: self.cfg.get("incremental", {}).get("default_lookback_days", 7)
default_lookback_days == 7
lookback(c) ==
    IF c.default_lookback_days = Null THEN default_lookback_days ELSE c.default_lookback_days

PostgresLastFromEpoch(st, now, c) ==
    IF StateGet(st, "postgres_last") = None THEN isoformat(0) ELSE StateGet(st, "postgres_last")

\* Lines 40-43: the stored watermark, or now minus the lookback on a cold start.
PostgresLast(st, now, c) ==
    IF StateGet(st, "postgres_last") = None
    THEN isoformat(now - lookback(c))
    ELSE StateGet(st, "postgres_last")

PostgresFrameFallsBack(outcome, table, last) ==
    IF outcome = "ok" THEN {r \in table : r.last_updated >= to_datetime(last)} ELSE table

\* Lines 45-50: the frame read_sql returns, or an empty frame when it raises.
PostgresFrame(outcome, table, last) ==
    IF outcome = "ok" THEN ReadSql(table, last) ELSE {}

SetPostgresLastToQueryBound(st, now) ==
    [st EXCEPT !.postgres_last = isoformat(now - LookbackDays)]

\* Line 51: state["postgres_last"] = datetime.utcnow().isoformat()
SetPostgresLast(st, now) == [st EXCEPT !.postgres_last = isoformat(now)]

\* Lines 33-51: the Postgres extract.  The read either succeeds or raises
\* inside the try; the watermark is the clock read after the read.
ExtractPostgres(p) ==
    /\ pc[p] = "loaded"
    /\ IF ~cfg[p].postgres_enabled
       THEN /\ pc' = [pc EXCEPT ![p] = "postgres_done"]
            /\ pg_read' = [pg_read EXCEPT ![p] = "disabled"]
            /\ UNCHANGED <<clock, state, inventory_df, exception>>
       ELSE IF ~HasGet(state[p])
       THEN \* line 40: state.get on a value that is no dict
            /\ pc' = [pc EXCEPT ![p] = "raised"]
            /\ exception' = [exception EXCEPT ![p] = "AttributeError"]
            /\ UNCHANGED <<clock, state, inventory_df, pg_read>>
       ELSE \E outcome \in {"ok", "error"}, now \in clock..Max(clock, Min(clock + 1, MaxTime)) :
            /\ pg_read' = [pg_read EXCEPT ![p] = outcome]
            /\ inventory_df' = [inventory_df EXCEPT ![p] =
                   PostgresFrame(outcome, inventory_table, PostgresLast(state[p], clock, cfg[p]))]
            /\ clock' = now
            /\ state' = [state EXCEPT ![p] = SetPostgresLast(state[p], now)]
            /\ pc' = [pc EXCEPT ![p] = "postgres_done"]
            /\ UNCHANGED exception
    /\ UNCHANGED <<engVars, mainVars>>
    /\ UNCHANGED <<state_file, inventory_table, movements_csv, quiet, locVars,
                   movements_df, csv_read, rerun>>

ReadCsvUnfiltered(rows, last_csv) == rows

\* Lines 61-64: read_csv, then the filter when a watermark is stored.  NaT
\* compares False with every timestamp.
ReadCsv(rows, last_csv) ==
    IF last_csv # None
    THEN {r \in rows : r.modified_date # Null /\ r.modified_date >= to_datetime(last_csv)}
    ELSE rows

\* Line 64: pd.to_datetime(column) without errors="coerce" raises on a cell
\* it cannot parse (read_csv leaves such a column as text).
ToDatetimeRaises(rows, last_csv) ==
    last_csv # None /\ \E r \in rows : r.modified_date = Unparsable

\* Lines 60-68: the try block.  It raises when read_csv does ("error"), when
\* state.get does (st is no dict) and when the filter's to_datetime does; the
\* except clause gives an empty frame.
CsvTryFails(outcome, rows, st) ==
    \/ outcome = "error"
    \/ ~HasGet(st)
    \/ ToDatetimeRaises(rows, StateGet(st, "csv_last"))

CsvFrame(outcome, rows, st) ==
    IF CsvTryFails(outcome, rows, st) THEN {} ELSE ReadCsv(rows, StateGet(st, "csv_last"))

SetCsvLastAndPostgresLast(st, now) ==
    [st EXCEPT !.csv_last = isoformat(now), !.postgres_last = isoformat(now)]

\* Line 69: state["csv_last"] = datetime.utcnow().isoformat()
SetCsvLast(st, now) == [st EXCEPT !.csv_last = isoformat(now)]

\* Lines 53-69: the CSV extract.  The path is absent (line 57), or the read
\* succeeds, or the try block raises.
ExtractCsv(p) ==
    /\ pc[p] = "postgres_done"
    /\ IF ~cfg[p].csv_enabled
       THEN /\ pc' = [pc EXCEPT ![p] = "csv_done"]
            /\ csv_read' = [csv_read EXCEPT ![p] = "disabled"]
            /\ UNCHANGED <<clock, state, movements_df, exception>>
       ELSE \E outcome \in {"absent", "ok", "error"}, now \in clock..Max(clock, Min(clock + 1, MaxTime)) :
            IF outcome = "absent"
            THEN \* line 58: a warning, nothing else
                 /\ csv_read' = [csv_read EXCEPT ![p] = "absent"]
                 /\ pc' = [pc EXCEPT ![p] = "csv_done"]
                 /\ UNCHANGED <<clock, state, movements_df, exception>>
            ELSE /\ csv_read' = [csv_read EXCEPT ![p] =
                        IF CsvTryFails(outcome, movements_csv, state[p]) THEN "error" ELSE "ok"]
                 /\ movements_df' = [movements_df EXCEPT ![p] =
                        CsvFrame(outcome, movements_csv, state[p])]
                 /\ IF ~HasGet(state[p])
                    THEN \* line 69: item assignment on a value that is no dict
                         /\ pc' = [pc EXCEPT ![p] = "raised"]
                         /\ exception' = [exception EXCEPT ![p] = "TypeError"]
                         /\ UNCHANGED <<state, clock>>
                    ELSE /\ clock' = now
                         /\ state' = [state EXCEPT ![p] = SetCsvLast(state[p], now)]
                         /\ pc' = [pc EXCEPT ![p] = "csv_done"]
                         /\ UNCHANGED exception
    /\ UNCHANGED <<engVars, mainVars>>
    /\ UNCHANGED <<state_file, inventory_table, movements_csv, quiet, locVars,
                   inventory_df, pg_read, rerun>>

\* Lines 78-93, on the cells the model carries: last_updated is coerced to a
\* timestamp (line 92); no row is dropped.
_clean_inventory(df) == {[r EXCEPT !.last_updated = coerce(@)] : r \in df}

\* Lines 95-107, on the cells the model carries: the timestamp column is
\* coerced (line 102), then the rows with a null product_id are dropped
\* (line 104).  Nothing drops a row for its timestamp.
_clean_movements(df) ==
    {[r EXCEPT !.modified_date = coerce(@)] : r \in {x \in df : x.product_id # Null}}

\* Path.write_text: open(mode "w") truncates the file, then the text is
\* written.  The outcomes: written; the open fails and the file is as it was;
\* the write fails after the truncation.
SaveOutcomes == {"written", "open_error", "write_error"}

_save_state_skipped(content, st, outcome) == content

\* Lines 25-26: the file content _save_state leaves.
_save_state(content, st, outcome) ==
    CASE outcome = "written" -> json_dumps(st)
      [] outcome = "open_error" -> content
      [] outcome = "write_error" -> Truncated

\* Lines 71-76: clean both frames, save the checkpoint, return them.  Nothing
\* catches what _save_state raises: the caller then gets no frame.
CleanAndSave(p) ==
    /\ pc[p] = "csv_done"
    /\ \E outcome \in SaveOutcomes :
         /\ state_file' = _save_state(state_file, state[p], outcome)
         /\ IF outcome = "written"
            THEN /\ pc' = [pc EXCEPT ![p] = "done"]
                 /\ inventory_df' = [inventory_df EXCEPT ![p] = _clean_inventory(inventory_df[p])]
                 /\ movements_df' = [movements_df EXCEPT ![p] = _clean_movements(movements_df[p])]
                 /\ UNCHANGED exception
            ELSE /\ pc' = [pc EXCEPT ![p] = "raised"]
                 /\ inventory_df' = [inventory_df EXCEPT ![p] = {}]
                 /\ movements_df' = [movements_df EXCEPT ![p] = {}]
                 /\ exception' = [exception EXCEPT ![p] = "OSError"]
    /\ UNCHANGED <<engVars, mainVars>>
    /\ UNCHANGED <<clock, inventory_table, movements_csv, quiet, locVars, state,
                   pg_read, csv_read, rerun>>

Environment ==
    \/ Tick
    \/ \E r \in InventoryRows : InsertInventory(r)
    \/ \E r \in MovementRows : AppendMovement(r)

Extract(p) ==
    \/ ExtractPostgres(p)
    \/ ExtractCsv(p)
    \/ CleanAndSave(p)

\* Single-runner scheduling: one process calls extract() again and again,
\* each call after the one before it has ended.
Runner == 1

Next ==
    \/ Environment
    \/ \E c \in Configs : Load(Runner, c)
    \/ Extract(Runner)

Spec == Init /\ [][Next]_vars

\* Two pipeline invocations (main.py calls extract() once) on the same state
\* file, started at any time, so that their runs may overlap.  The sources
\* are left as they are.
NextOverlap ==
    \/ Tick
    \/ \E p \in Procs, c \in Configs : pc[p] = "idle" /\ Load(p, c)
    \/ \E p \in Procs : Extract(p)

SpecOverlap == Init /\ [][NextOverlap]_vars

\* One pipeline invocation on sources and a state file of any content: old
\* and recent rows, missing and unparsable cells, a cold start or stored
\* watermarks, the lookback configured or left to its default.
SourcesNow == default_lookback_days + LookbackDays + 1
SourceTimes == {SourcesNow - default_lookback_days - 1, SourcesNow - default_lookback_days,
                SourcesNow - LookbackDays - 1, SourcesNow - LookbackDays, SourcesNow}
StoredWatermark == isoformat(SourcesNow - LookbackDays)
SourceInventoryRows == [product_id : {1}, last_updated : SourceTimes]
SourceMovementRows ==
    [product_id : {Null, 1},
     modified_date : {Null, Unparsable, SourcesNow - LookbackDays - 1, SourcesNow}]
SourceConfigs == [postgres_enabled : BOOLEAN, csv_enabled : BOOLEAN,
                  default_lookback_days : {Null, LookbackDays}]
SourceFiles == {Absent} \cup {json_dumps(PyDict(pg, csv)) : pg, csv \in {None, StoredWatermark}}
UpTo(S, n) == {T \in SUBSET S : Cardinality(T) <= n}

InitSources ==
    /\ clock = SourcesNow
    /\ state_file \in SourceFiles
    /\ inventory_table \in UpTo(SourceInventoryRows, MaxSourceRows)
    /\ movements_csv \in UpTo(SourceMovementRows, MaxSourceRows)
    /\ quiet = TRUE
    /\ pc = [p \in Procs |-> "idle"]
    /\ cfg = [p \in Procs |-> NoConfig]
    /\ state = [p \in Procs |-> EmptyDict]
    /\ loaded = [p \in Procs |-> EmptyDict]
    /\ inventory_df = [p \in Procs |-> {}]
    /\ movements_df = [p \in Procs |-> {}]
    /\ pg_read = [p \in Procs |-> "none"]
    /\ csv_read = [p \in Procs |-> "none"]
    /\ exception = [p \in Procs |-> "none"]
    /\ started_at = [p \in Procs |-> 0]
    /\ rerun = [p \in Procs |-> FALSE]
    /\ overlapped = [p \in Procs |-> FALSE]
    /\ EnginesNotRun

NextSources ==
    \/ \E c \in SourceConfigs : pc[Runner] = "idle" /\ Load(Runner, c)
    \/ Extract(Runner)

SpecSources == InitSources /\ [][NextSources]_vars

\* The inventory metrics engine on its own: any two frames in, one call.
InitMetrics ==
    /\ ExtractorNotRun(EngineNow)
    /\ engine_inventory \in {DataFrame(InvCells, rows) : rows \in SeqsUpTo(EngineInvRows, MaxInvRows)}
    /\ engine_movements \in {DataFrame(MovCells, rows) : rows \in SeqsUpTo(EngineMovRows, MaxMovRows)}
    /\ inventory_summary = NotRun
    /\ movement_summary = NotRun
    /\ warehouse_summary = NotRun
    /\ financial_summary = NotRun
    /\ engine_cfg = DefaultCfg

AfterRunInPlace(df) ==
    IF empty(df) THEN df
    ELSE WithColumn(df, "inventory_value", [i \in DOMAIN df.rows |-> Float(0)])

\* The caller's frame after an engine has run on it: every engine works on
\* df.copy() (inventory_metrics.py 17 and 56, movement_analytics.py 16,
\* warehouse_performance.py 16, financial_metrics.py 17) or on frames that
\* filtering and dropna return anew, so the frame is as it was.
AfterRun(df) == df

\* main.py line 34: inventory_summary = inv_metrics.run(raw_inventory, raw_movements)
RunInventoryMetrics ==
    /\ inventory_summary = NotRun
    /\ inventory_summary' = InventoryMetrics_run(engine_inventory, engine_movements, clock)
    /\ engine_inventory' = AfterRun(engine_inventory)
    /\ engine_movements' = AfterRun(engine_movements)
    /\ UNCHANGED <<extVars, mainVars>>
    /\ UNCHANGED <<movement_summary, warehouse_summary, financial_summary, engine_cfg>>

NextMetrics == RunInventoryMetrics

SpecMetrics == InitMetrics /\ [][NextMetrics]_vars

\* The financial metrics engine on its own: any inventory frame in, one call.
MaxFinRows == 3
FinancialInvRows == {InvRow(p, q, 1) : p \in {1, 2, 3}, q \in {0, 5, 15, 80}}

InitFinancial ==
    /\ ExtractorNotRun(EngineNow)
    /\ engine_inventory \in {DataFrame(InvCells, rows) : rows \in SeqsUpTo(FinancialInvRows, MaxFinRows)}
    /\ engine_movements = EmptyFrame
    /\ inventory_summary = NotRun
    /\ movement_summary = NotRun
    /\ warehouse_summary = NotRun
    /\ financial_summary = NotRun
    /\ engine_cfg = DefaultCfg

\* main.py line 43: financial_summary = fin_metrics.run(raw_inventory)
RunFinancialMetrics ==
    /\ financial_summary = NotRun
    /\ \E order \in AbcOrders(engine_inventory) :
         financial_summary' = FinancialMetrics_run(engine_inventory, order)
    /\ engine_inventory' = AfterRun(engine_inventory)
    /\ UNCHANGED <<extVars, mainVars>>
    /\ UNCHANGED <<engine_movements, inventory_summary, movement_summary,
                   warehouse_summary, engine_cfg>>

NextFinancial == RunFinancialMetrics

SpecFinancial == InitFinancial /\ [][NextFinancial]_vars

\* The movement analytics engine on its own: any movement frame in, one
\* call, at one of two wall-clock times.
MaxTrendRows == 3
TrendLatest == 200
TrendTimes == {Timestamp(t) : t \in {TrendLatest - 61, TrendLatest - 60, TrendLatest - 31,
                                      TrendLatest - 30, TrendLatest}} \cup {NaT}
TrendRows ==
    {[c \in MovCells |->
        CASE c = "product_id" -> p [] c = "quantity" -> Float(50)
          [] c = "movement_type" -> "out" [] c = "modified_date" -> t] :
     p \in {1, 2}, t \in TrendTimes}
    \cup {[c \in MovCells |->
        CASE c = "product_id" -> Null [] c = "quantity" -> Float(50)
          [] c = "movement_type" -> "out" [] c = "modified_date" -> Timestamp(TrendLatest)]}

InitMovement ==
    /\ \E t \in {TrendLatest, TrendLatest + 45} : ExtractorNotRun(t)
    /\ engine_inventory = EmptyFrame
    /\ engine_movements \in {DataFrame(MovCells, rows) : rows \in SeqsUpTo(TrendRows, MaxTrendRows)}
    /\ inventory_summary = NotRun
    /\ movement_summary = NotRun
    /\ warehouse_summary = NotRun
    /\ financial_summary = NotRun
    /\ engine_cfg = DefaultCfg

\* main.py line 37: movement_summary = move_analytics.run(raw_movements)
RunMovementAnalytics ==
    /\ movement_summary = NotRun
    /\ movement_summary' = MovementAnalytics_run(engine_movements, clock)
    /\ engine_movements' = AfterRun(engine_movements)
    /\ UNCHANGED <<extVars, mainVars>>
    /\ UNCHANGED <<engine_inventory, inventory_summary, warehouse_summary,
                   financial_summary, engine_cfg>>

NextMovement == RunMovementAnalytics

SpecMovement == InitMovement /\ [][NextMovement]_vars

\* The warehouse performance engine on its own: inventory with or without
\* site_id, movements with or without from_site and to_site, the capacity
\* option left out or set.
MaxSiteRows == 2
Capacities == {0, default_capacity}
SiteCells == {"product_id", "site_id", "quantity"}
TransferCells == {"product_id", "quantity", "from_site", "to_site"}
SiteInvRows ==
    {[c \in SiteCells |->
        CASE c = "product_id" -> 1 [] c = "site_id" -> site [] c = "quantity" -> Float(q)] :
     site \in {1, 2}, q \in {0, 100}}
TransferRows ==
    {[c \in TransferCells |->
        CASE c = "product_id" -> 1 [] c = "quantity" -> Float(50)
          [] c = "from_site" -> src [] c = "to_site" -> dst] :
     src \in {Null, 1, 2}, dst \in {Null, 1, 2}}
\* The frame without some of its columns.
Without(df, cols) == IF empty(df) THEN df ELSE Project(df, df.columns \ cols)

InitWarehouse ==
    /\ ExtractorNotRun(EngineNow)
    /\ \E rows \in SeqsUpTo(SiteInvRows, MaxSiteRows), drop \in {{}, {"site_id"}} :
          engine_inventory = Without(DataFrame(SiteCells, rows), drop)
    /\ \E rows \in SeqsUpTo(TransferRows, MaxSiteRows), drop \in {{}, {"from_site", "to_site"}} :
          engine_movements = Without(DataFrame(TransferCells, rows), drop)
    /\ inventory_summary = NotRun
    /\ movement_summary = NotRun
    /\ warehouse_summary = NotRun
    /\ financial_summary = NotRun
    /\ engine_cfg \in [default_capacity : Capacities]

\* main.py line 40: warehouse_summary = wh_perf.run(raw_inventory, raw_movements)
RunWarehousePerformance ==
    /\ warehouse_summary = NotRun
    /\ warehouse_summary' = WarehousePerformance_run(engine_inventory, engine_movements,
                                                     engine_cfg.default_capacity)
    /\ engine_inventory' = AfterRun(engine_inventory)
    /\ engine_movements' = AfterRun(engine_movements)
    /\ UNCHANGED <<extVars, mainVars>>
    /\ UNCHANGED <<inventory_summary, movement_summary, financial_summary, engine_cfg>>

NextWarehouse == RunWarehousePerformance

SpecWarehouse == InitWarehouse /\ [][NextWarehouse]_vars

\* Lines 78-93 of data_extractor.py on a frame with a run-time column set:
\* the required columns the frame lacks are logged (lines 84-86) and
\* nothing is added; quantity and unit_cost, where present, are made numeric
\* with 0 for what is missing (lines 87-90).
_clean_inventory_columns(df) ==
    IF empty(df) THEN EmptyFrame
    ELSE [columns |-> df.columns,
          rows |-> [i \in DOMAIN df.rows |->
                      [c \in df.columns |->
                          IF c \in {"quantity", "unit_cost"}
                          THEN fillna(df.rows[i][c], Float(0)) ELSE df.rows[i][c]]]]

\* The four engines on the two record sets extract() returned, each run
\* once, in any order (main.py 33-43; spec: a fan-out).  The extracted
\* inventory has every required column or lacks some.
AllInvCells == {"product_id", "site_id", "quantity", "unit_cost"}
DriftInvRows ==
    {[c \in AllInvCells |->
        CASE c = "product_id" -> p [] c = "site_id" -> 1
          [] c = "quantity" -> q [] c = "unit_cost" -> Float(5)] :
     p \in {1, 2}, q \in {NaN, Float(100)}}
Drifts == {{}, {"quantity"}, {"unit_cost"}, {"site_id"}, {"quantity", "unit_cost"}}
DriftMovRows == {MovRow(1, 50, m, EngineNow - 5) : m \in {"out", "in"}}

InitEngines ==
    /\ ExtractorNotRun(EngineNow)
    /\ \E rows \in SeqsUpTo(DriftInvRows, MaxInvRows), drop \in Drifts :
          engine_inventory = _clean_inventory_columns(Without(DataFrame(AllInvCells, rows), drop))
    /\ engine_movements \in {DataFrame(MovCells, rows) : rows \in SeqsUpTo(DriftMovRows, 1)}
    /\ inventory_summary = NotRun
    /\ movement_summary = NotRun
    /\ warehouse_summary = NotRun
    /\ financial_summary = NotRun
    /\ engine_cfg = DefaultCfg

NextEngines ==
    \/ RunInventoryMetrics
    \/ RunMovementAnalytics
    \/ RunWarehousePerformance
    \/ RunFinancialMetrics

SpecEngines == InitEngines /\ [][NextEngines]_vars

\* ------------------------------------------------------------------ main()
\* The frame main() holds for an extracted record set, the cells the
\* extractor's rows do not carry filled in: every inventory row 100 units at
\* unit cost 5, every movement 50 units of type m.
RECURSIVE InSourceOrder(_, _)
InSourceOrder(S, tcol) ==
    IF S = {} THEN <<>>
    ELSE LET r == CHOOSE x \in S : \A y \in S : x[tcol] <= y[tcol]
         IN <<r>> \o InSourceOrder(S \ {r}, tcol)
raw_inventory(df) ==
    LET rows == InSourceOrder(df, "last_updated")
    IN DataFrame(InvCells, [i \in DOMAIN rows |-> InvRow(rows[i].product_id, 100, 5)])
raw_movements(df, m) ==
    LET rows == InSourceOrder(df, "modified_date")
    IN DataFrame(MovCells, [i \in DOMAIN rows |->
                               MovRow(rows[i].product_id, 50, m, rows[i].modified_date)])

\* A process starts main(): line 27.  Nothing of the process before it is
\* left but the files; prior remembers how it ended.
MainStart ==
    /\ main_pc \in {"idle", "finished", "failed"}
    /\ main_pc' = "extract"
    /\ prior' = IF main_pc = "idle" THEN NoPrior
                ELSE [ended |-> main_pc, returned |-> pc[Runner] = "done",
                      engine |-> inventory_summary.raised,
                      checkpoint |-> state_file,
                      inventory |-> inventory_df[Runner],
                      movements |-> movements_df[Runner]]
    /\ pc' = [pc EXCEPT ![Runner] = "idle"]
    /\ sink' = [i \in DOMAIN Tables |-> "pending"]
    /\ engine_inventory' = EmptyFrame
    /\ engine_movements' = EmptyFrame
    /\ inventory_summary' = NotRun
    /\ movement_summary' = NotRun
    /\ warehouse_summary' = NotRun
    /\ financial_summary' = NotRun
    /\ UNCHANGED <<clock, state_file, inventory_table, movements_csv, quiet, cfg, state,
                   loaded, inventory_df, movements_df, pg_read, csv_read, exception,
                   started_at, rerun, overlapped, engine_cfg>>

\* Line 31: raw_inventory, raw_movements = extractor.extract(), the call
\* having returned the two frames or raised; nothing in main() catches.
ExtractEnds ==
    /\ main_pc = "extract"
    /\ pc[Runner] \in {"done", "raised"}
    /\ IF pc[Runner] = "done"
       THEN /\ main_pc' = "running"
            /\ engine_inventory' = raw_inventory(inventory_df[Runner])
            /\ \E m \in {"in", "out"} :
                  engine_movements' = raw_movements(movements_df[Runner], m)
       ELSE /\ main_pc' = "failed"
            /\ UNCHANGED <<engine_inventory, engine_movements>>
    /\ UNCHANGED extVars
    /\ UNCHANGED <<inventory_summary, movement_summary, warehouse_summary,
                   financial_summary, engine_cfg, sink, prior>>

\* Lines 33-43: the four engines, one after the other.
RunEngines ==
    /\ main_pc = "running"
    /\ \/ RunInventoryMetrics
       \/ inventory_summary.raised = "none" /\ RunMovementAnalytics
       \/ movement_summary.raised = "none" /\ RunWarehousePerformance
       \/ warehouse_summary.raised = "none" /\ RunFinancialMetrics

Summaries == <<inventory_summary, movement_summary, warehouse_summary, financial_summary>>

\* What an engine raised ends main(): nothing in main() catches.
EngineRaises ==
    /\ main_pc = "running"
    /\ \E i \in DOMAIN Summaries : Summaries[i].raised \notin {"pending", "none"}
    /\ main_pc' = "failed"
    /\ UNCHANGED <<extVars, engVars, sink, prior>>

\* data_loader.py 14-23: a table that is empty is not written; what
\* to_parquet raises is logged and save_parquet returns.  (output.csv is
\* left out of the configuration: lines 51-53 of main.py do nothing.)
save_parquet(df, outcome) ==
    IF empty(df) THEN "skipped" ELSE IF outcome = "written" THEN "written" ELSE "logged"

\* Lines 46-49 of main.py: the four calls, each with its own outcome.
SaveParquet ==
    /\ main_pc = "running"
    /\ financial_summary.raised = "none"
    /\ \A i \in DOMAIN Tables : sink[i] = "pending"
    /\ \E outcome \in [DOMAIN Tables -> {"written", "error"}] :
          sink' = [i \in DOMAIN Tables |-> save_parquet(Summaries[i].frame, outcome[i])]
    /\ UNCHANGED <<extVars, engVars, main_pc, prior>>

\* Lines 55-63: the report; report_generator.py 45 writes it and nothing
\* catches what write_text raises.
GenerateReport ==
    /\ main_pc = "running"
    /\ \A i \in DOMAIN Tables : sink[i] # "pending"
    /\ main_pc' \in {"finished", "failed"}
    /\ UNCHANGED <<extVars, engVars, sink, prior>>

\* main() run again and again by one scheduler with the same configuration
\* file, on sources of any content that nobody writes to meanwhile.
InitPipeline ==
    /\ clock = 0
    /\ state_file = Absent
    /\ inventory_table \in UpTo(InventoryRows, MaxRows)
    /\ movements_csv \in UpTo(MovementRows, MaxRows)
    /\ quiet = TRUE
    /\ pc = [p \in Procs |-> "idle"]
    /\ \E c \in Configs : cfg = [p \in Procs |-> c]
    /\ state = [p \in Procs |-> EmptyDict]
    /\ loaded = [p \in Procs |-> EmptyDict]
    /\ inventory_df = [p \in Procs |-> {}]
    /\ movements_df = [p \in Procs |-> {}]
    /\ pg_read = [p \in Procs |-> "none"]
    /\ csv_read = [p \in Procs |-> "none"]
    /\ exception = [p \in Procs |-> "none"]
    /\ started_at = [p \in Procs |-> 0]
    /\ rerun = [p \in Procs |-> FALSE]
    /\ overlapped = [p \in Procs |-> FALSE]
    /\ EnginesNotRun

NextPipeline ==
    \/ Tick
    \/ MainStart
    \/ main_pc = "extract" /\ pc[Runner] = "idle" /\ Load(Runner, cfg[Runner])
    \/ Extract(Runner)
    \/ ExtractEnds
    \/ RunEngines
    \/ EngineRaises
    \/ SaveParquet
    \/ GenerateReport

SpecPipeline == InitPipeline /\ [][NextPipeline]_vars

\* ======================================================================
\* Claims
\* ======================================================================
\* The frame's rows as a set.
RowsOf(df) == {df.rows[i] : i \in DOMAIN df.rows}

\* The specified turnover of product pid: the summed quantity of its
\* outgoing movements over its summed inventory quantity.
SpecQuantity(pid) == FSum(Group(engine_inventory, "product_id", pid), "quantity")
SpecCogs(pid) ==
    FSum(SelectRows(engine_movements.rows,
                    {r \in RowsOf(engine_movements) :
                        r["product_id"] = pid /\ lower(r["movement_type"]) \in OutgoingTypes}),
         "quantity")
SpecTurnover(pid) ==
    IF FPositive(SpecQuantity(pid)) THEN FDiv(SpecCogs(pid), SpecQuantity(pid)) ELSE NaN

\* C1: InventoryMetrics.run returns a table without raising, and the row of
\* every product has turnover_ratio = cogs_quantity / quantity when the
\* product's summed quantity is > 0 and null when it is 0.
C1_TurnoverRatio ==
    inventory_summary # NotRun =>
        /\ inventory_summary.raised = "none"
        /\ \A pid \in {r["product_id"] : r \in RowsOf(engine_inventory)} :
              \E r \in RowsOf(inventory_summary.frame) :
                  r["product_id"] = pid /\ r["turnover_ratio"] = SpecTurnover(pid)

\* ---------------------------------------------------------------------
\* The watermark a checkpoint value holds for a key (None for a value that
\* is no dict), and the one a state file content holds.
Watermark(st, key) == IF st.type = "dict" THEN StateGet(st, key) ELSE None
Stored(content, key) ==
    IF content.kind = "json" THEN Watermark(content.value, key) ELSE None

Keys == {"postgres_last", "csv_last"}
\* The checkpoint keys whose source the run of p read (or tried to).
AdvancedKeys(p) ==
    {k \in Keys : \/ k = "postgres_last" /\ "postgres" \in Advanced(p)
                  \/ k = "csv_last" /\ "csv" \in Advanced(p)}
EnabledKeys(p) ==
    {k \in Keys : \/ k = "postgres_last" /\ cfg[p].postgres_enabled
                  \/ k = "csv_last" /\ cfg[p].csv_enabled}

\* C2 as stated: a run that follows a run which advanced both watermarks,
\* with no source written to in between, returns two empty record sets.
C2_RerunIsEmpty ==
    \A p \in Procs : (pc[p] = "done" /\ rerun[p]) =>
        inventory_df[p] = {} /\ movements_df[p] = {}

\* C2 amended: such a run returns only records whose timestamp is at or after
\* the watermark the run before it stored, hence two empty sets when every
\* record of the sources is older than that watermark.
C2_RerunReturnsOnlyNotOlder ==
    \A p \in Procs : (pc[p] = "done" /\ rerun[p]) =>
        LET pg == to_datetime(Watermark(loaded[p], "postgres_last"))
            csv == to_datetime(Watermark(loaded[p], "csv_last"))
        IN /\ \A r \in inventory_df[p] : r.last_updated >= pg
           /\ \A r \in movements_df[p] : r.modified_date >= csv
           /\ (\A r \in inventory_table : r.last_updated < pg) => inventory_df[p] = {}
           /\ (\A r \in movements_csv : r.modified_date < csv) => movements_df[p] = {}

C2_Witness ==
    \E p \in Procs :
        /\ pc[p] = "done" /\ rerun[p]
        /\ pg_read[p] = "ok" /\ csv_read[p] = "ok"
        /\ inventory_table # {} /\ movements_csv # {}
        /\ inventory_df[p] = {} /\ movements_df[p] = {}

\* C3: no step replaces a watermark stored in the state file by an earlier
\* one, or removes it.
C3_WatermarkNeverRegresses ==
    [][\A k \in Keys :
          Stored(state_file, k) # None =>
              /\ Stored(state_file', k) # None
              /\ to_datetime(Stored(state_file', k)) >= to_datetime(Stored(state_file, k))]_vars

\* C4: whatever happens to _save_state, the state file afterwards holds its
\* previous content or the new checkpoint, whole.
C4_SaveAllOrNothing ==
    [][\A p \in Procs :
          (pc[p] = "csv_done" /\ pc'[p] # "csv_done") =>
              state_file' \in {state_file, json_dumps(state[p])}]_vars

\* C5: _load_state returns a mapping for every content of the state file, and
\* extract() does not fail on what it returned.
C5_LoadReturnsMapping ==
    \A p \in Procs :
        /\ loaded[p].type = "dict"
        /\ exception[p] \notin {"AttributeError", "TypeError"}

\* C6: a run that returns with a source disabled returns no record of that
\* source and has saved, for it, the watermark (or absence) it loaded.
C6_DisabledSourceUntouched ==
    \A p \in Procs : pc[p] = "done" =>
        /\ state_file = json_dumps(state[p])
        /\ ~cfg[p].postgres_enabled =>
              /\ inventory_df[p] = {}
              /\ Stored(state_file, "postgres_last") = Watermark(loaded[p], "postgres_last")
        /\ ~cfg[p].csv_enabled =>
              /\ movements_df[p] = {}
              /\ Stored(state_file, "csv_last") = Watermark(loaded[p], "csv_last")

C6_Witness ==
    \E p \in Procs :
        /\ pc[p] = "done"
        /\ ~cfg[p].postgres_enabled /\ cfg[p].csv_enabled /\ csv_read[p] = "ok"
        /\ Watermark(loaded[p], "postgres_last") # None
        /\ inventory_table # {}

\* The state file holds for key k a watermark taken from the clock during
\* the run of p.
CheckpointedNow(p, k) ==
    /\ Stored(state_file, k) # None
    /\ started_at[p] <= to_datetime(Stored(state_file, k))
    /\ to_datetime(Stored(state_file, k)) <= clock
    /\ Stored(state_file, k) = Watermark(state[p], k)

\* C7 as stated: after a run that returns, every enabled source has in the
\* state file a watermark taken from the clock during that run.
C7_EnabledSourceCheckpointed ==
    \A p \in Procs : pc[p] = "done" =>
        \A k \in EnabledKeys(p) : CheckpointedNow(p, k)

\* C7 amended: that holds of the Postgres source when enabled, read or
\* failed, and of the CSV source when enabled and its path exists; when the
\* path does not exist csv_last is saved as it was loaded.
C7_ReadSourceCheckpointed ==
    \A p \in Procs : pc[p] = "done" =>
        /\ cfg[p].postgres_enabled => CheckpointedNow(p, "postgres_last")
        /\ (cfg[p].csv_enabled /\ csv_read[p] # "absent") => CheckpointedNow(p, "csv_last")
        /\ (cfg[p].csv_enabled /\ csv_read[p] = "absent") =>
              Stored(state_file, "csv_last") = Watermark(loaded[p], "csv_last")

C7_Witness ==
    \E p \in Procs :
        /\ pc[p] = "done"
        /\ pg_read[p] = "error" /\ csv_read[p] = "error"
        /\ started_at[p] > 0
        /\ Watermark(loaded[p], "postgres_last") # None
        /\ Watermark(loaded[p], "postgres_last") # Stored(state_file, "postgres_last")

\* C8: a failed read of one source (the read raises; the CSV path is absent)
\* does not make extract() raise and leaves that source's record set empty;
\* the CSV record set is what the file and the loaded csv_last give, whatever
\* the Postgres read did, and the CSV step leaves the inventory set alone.
\* (With a checkpoint that is no dict the CSV step ends in line 69's
\* TypeError whether or not the read failed: that is C5's case.)
C8_ReadFailureDegrades ==
    /\ [](\A p \in Procs :
            /\ pg_read[p] = "error" => inventory_df[p] = {}
            /\ csv_read[p] \in {"error", "absent"} => movements_df[p] = {})
    /\ [][\A p \in Procs :
            /\ (pc[p] = "loaded" /\ pg_read'[p] = "error") => pc'[p] = "postgres_done"
            /\ (pc[p] = "postgres_done" /\ csv_read'[p] \in {"error", "absent"}
                    /\ loaded[p].type = "dict") => pc'[p] = "csv_done"
            /\ (pc[p] = "postgres_done" /\ csv_read'[p] = "ok") =>
                  movements_df'[p] =
                      {r \in movements_csv :
                          Watermark(loaded[p], "csv_last") # None =>
                              r.modified_date >= to_datetime(Watermark(loaded[p], "csv_last"))}
            /\ (pc[p] = "postgres_done" \/ pc'[p] = "done") =>
                  inventory_df'[p] = inventory_df[p]]_vars

C8_Witness ==
    \E p \in Procs :
        /\ pc[p] = "done"
        /\ pg_read[p] = "error" /\ inventory_table # {}
        /\ csv_read[p] = "ok" /\ movements_df[p] # {}

\* C9: a failure of the checkpoint write is not raised to the caller of
\* extract(), and leaves the previously persisted checkpoint in the file.
C9_SaveFailureNotFatal ==
    \A p \in Procs :
        /\ exception[p] # "OSError"
        /\ state_file # Truncated

\* C10 as stated: after two invocations have both finished, the state file
\* holds for every source a watermark no earlier than the one either of them
\* wrote; in particular one written by one of them alone is still there.
BothFinished == \A p \in Procs : pc[p] = "done"
NoUpdateLost ==
    \A p \in Procs : \A k \in AdvancedKeys(p) :
        /\ Stored(state_file, k) # None
        /\ to_datetime(Stored(state_file, k)) >= to_datetime(Watermark(state[p], k))

C10_OverlappingRunsLoseNothing == BothFinished => NoUpdateLost

\* C10 amended: that holds when the two runs did not overlap.
C10_SerialRunsLoseNothing ==
    (BothFinished /\ \A p \in Procs : ~overlapped[p]) => NoUpdateLost

C10_Witness ==
    /\ BothFinished
    /\ \A p \in Procs : ~overlapped[p]
    /\ \E p, q \in Procs : Advanced(p) = {"postgres"} /\ Advanced(q) = {"csv"}
    /\ clock > 0

\* ---------------------------------------------------------------------
\* C11: every movement row extract() returns has a product_id and a
\* timestamp that are not null, on a cold start as on later runs.
C11_MovementKeysNeverNull ==
    \A p \in Procs : pc[p] = "done" =>
        \A r \in movements_df[p] : r.product_id # Null /\ r.modified_date # Null

\* The watermark the Postgres reader of p queries with, and the rows of each
\* source whose incremental column is at or after a watermark.
ColdStartBound(p) == started_at[p] - (IF cfg[p].default_lookback_days = Null
                                      THEN 7 ELSE cfg[p].default_lookback_days)
InventorySince(t) == {r \in inventory_table : r.last_updated # Null /\ r.last_updated >= t}
MovementsSince(t) == {r \in movements_csv : r.modified_date # Null /\ r.modified_date >= t}

\* C18: a reader that read its source returns, with no stored watermark, the
\* rows not older than now - default_lookback_days (7 unless configured) for
\* Postgres and every row of the file for the CSV; with a stored watermark,
\* exactly the rows at or after it.
C18_ColdStartPolicies ==
    \A p \in Procs : pc[p] = "csv_done" =>
        /\ pg_read[p] = "ok" =>
              inventory_df[p] =
                  IF Watermark(loaded[p], "postgres_last") = None
                  THEN InventorySince(ColdStartBound(p))
                  ELSE InventorySince(to_datetime(Watermark(loaded[p], "postgres_last")))
        /\ csv_read[p] = "ok" =>
              movements_df[p] =
                  IF Watermark(loaded[p], "csv_last") = None
                  THEN movements_csv
                  ELSE MovementsSince(to_datetime(Watermark(loaded[p], "csv_last")))

\* A cold start with the lookback left to its default: the Postgres reader
\* leaves out a row older than 7 days and the CSV reader returns a row older
\* than that, with a null cell.
C18_Witness ==
    \E p \in Procs :
        /\ pc[p] = "csv_done" /\ pg_read[p] = "ok" /\ csv_read[p] = "ok"
        /\ loaded[p] = EmptyDict
        /\ cfg[p].default_lookback_days = Null
        /\ \E r \in inventory_table : r \notin inventory_df[p]
        /\ inventory_df[p] # {}
        /\ \E r \in movements_df[p] : r.modified_date = Null

\* ---------------------------------------------------------------------
\* The products of the inventory handed to the engines, the summed
\* inventory value of one, and the total.
Products == {r["product_id"] : r \in RowsOf(engine_inventory)}
RowValues(rows) ==
    [i \in DOMAIN rows |-> [v |-> FMul(rows[i]["quantity"], rows[i]["unit_cost"])]]
ProductValue(pid) == FSum(RowValues(Group(engine_inventory, "product_id", pid)), "v")
TotalValue == FSum(RowValues(engine_inventory.rows), "v")
\* The class FinancialMetrics.run gave product pid: the classes on its rows.
ClassesOf(pid) ==
    {r["class"] : r \in {x \in RowsOf(financial_summary.frame) : x["product_id"] = pid}}

\* C13: on a non-empty inventory whose total value is 0, every product is
\* given class C.
C13_ZeroTotalAllClassC ==
    (financial_summary # NotRun /\ ~empty(engine_inventory) /\ TotalValue = Float(0)) =>
        /\ financial_summary.raised = "none"
        /\ \A pid \in Products : ClassesOf(pid) = {"C"}

\* The descending orders of the products, and the class the cumulative share
\* of the i-th product of an order gives.
ProductOrders ==
    {o \in [1..Cardinality(Products) -> Products] :
        /\ \A i, j \in DOMAIN o : i # j => o[i] # o[j]
        /\ \A i, j \in DOMAIN o : i < j => FLe(ProductValue(o[j]), ProductValue(o[i]))}
ShareOf(o, i) ==
    FDiv(FSum([k \in 1..i |-> [v |-> ProductValue(o[k])]], "v"), TotalValue)
ClassOfShare(x) ==
    IF FLe(x, Frac(80, 100)) THEN "A" ELSE IF FLe(x, Frac(95, 100)) THEN "B" ELSE "C"

\* C14: the output has one row per inventory row, in the same order; every
\* product has exactly one class, in {A, B, C}; and for one descending order
\* of the products, the class of each is A iff its cumulative share is
\* <= 0.80, B iff it is in (0.80, 0.95], else C.
C14_AbcClassification ==
    (financial_summary # NotRun /\ ~empty(engine_inventory)) =>
        /\ financial_summary.raised = "none"
        /\ Len(financial_summary.frame.rows) = Len(engine_inventory.rows)
        /\ \A i \in DOMAIN engine_inventory.rows :
              financial_summary.frame.rows[i]["product_id"] = engine_inventory.rows[i]["product_id"]
        /\ \A pid \in Products :
              Cardinality(ClassesOf(pid)) = 1 /\ ClassesOf(pid) \subseteq {"A", "B", "C"}
        /\ FPositive(TotalValue) =>
              \E o \in ProductOrders :
                  \A i \in DOMAIN o : ClassesOf(o[i]) = {ClassOfShare(ShareOf(o, i))}

\* Three products with cumulative shares 0.80, 0.95 and 1: both boundaries.
C14_Witness ==
    /\ financial_summary # NotRun
    /\ TotalValue = Float(100)
    /\ \E a, b, c \in Products :
          /\ ProductValue(a) = Float(80) /\ ClassesOf(a) = {"A"}
          /\ ProductValue(b) = Float(15) /\ ClassesOf(b) = {"B"}
          /\ ProductValue(c) = Float(5) /\ ClassesOf(c) = {"C"}

\* ---------------------------------------------------------------------
\* The sites of the inventory handed to the engines, the summed quantity of
\* one, and the sites some transfer leaves from.
Sites == {r["site_id"] : r \in RowsOf(engine_inventory)} \ {Null}
SiteQuantity(site) ==
    FSum(SelectRows(engine_inventory.rows,
                    {r \in RowsOf(engine_inventory) : r["site_id"] = site}), "quantity")
TransferSources ==
    IF HasSites(engine_movements)
    THEN {r["from_site"] : r \in {x \in RowsOf(engine_movements) :
                                     x["from_site"] # Null /\ x["to_site"] # Null}}
    ELSE {}

\* C17: with site_id on the inventory, the summary has for every site a row
\* with quantity = the site's summed quantity and utilization = quantity /
\* capacity, movements carrying from_site/to_site or not; the row of a site
\* no transfer leaves from is kept, its transfer fields null.
C17_EverySiteKept ==
    (warehouse_summary # NotRun /\ ~empty(engine_inventory)
        /\ "site_id" \in engine_inventory.columns) =>
        /\ warehouse_summary.raised = "none"
        /\ {"site_id", "quantity", "utilization"} \subseteq warehouse_summary.frame.columns
        /\ \A site \in Sites :
              \E r \in RowsOf(warehouse_summary.frame) :
                  /\ r["site_id"] = site
                  /\ r["quantity"] = SiteQuantity(site)
                  /\ r["utilization"] =
                        FDiv(SiteQuantity(site), Float(engine_cfg.default_capacity))
                  /\ (site \notin TransferSources /\ "src" \in warehouse_summary.frame.columns) =>
                        r["src"] = Null /\ r["dst"] = Null

\* C15 on the warehouse summary: utilization is never infinite.
C15_NoInfiniteRatio ==
    (warehouse_summary # NotRun /\ ~empty(engine_inventory)) =>
        /\ warehouse_summary.raised = "none"
        /\ \A r \in RowsOf(warehouse_summary.frame) : r["utilization"] # Inf

\* ---------------------------------------------------------------------
\* The movement rows that have a product and a timestamp, the latest of
\* their timestamps, and the summed quantity of a product in a span of days.
DatedMovements ==
    {i \in DOMAIN engine_movements.rows :
        /\ engine_movements.rows[i]["product_id"] # Null
        /\ engine_movements.rows[i]["modified_date"] # NaT}
LatestDay ==
    CHOOSE d \in {engine_movements.rows[i]["modified_date"].t : i \in DatedMovements} :
        \A i \in DatedMovements : engine_movements.rows[i]["modified_date"].t <= d
RECURSIVE SumOver(_)
SumOver(I) ==
    IF I = {} THEN Float(0)
    ELSE LET i == CHOOSE x \in I : TRUE
         IN FAdd(engine_movements.rows[i]["quantity"], SumOver(I \ {i}))
QuantityIn(pid, from, to) ==
    SumOver({i \in DatedMovements :
                /\ engine_movements.rows[i]["product_id"] = pid
                /\ engine_movements.rows[i]["modified_date"].t >= from
                /\ engine_movements.rows[i]["modified_date"].t <= to})

\* C16: for every product, w1_qty is its quantity dated within 30 days
\* before the latest timestamp of the data, w2_qty its quantity dated from 60
\* days to just over 30 days before it, and trend_pct = (w1 - w2) / w2 when
\* w2 > 0, null otherwise; whatever the wall clock reads.
C16_MovementTrend ==
    (movement_summary # NotRun /\ DatedMovements # {}) =>
        /\ movement_summary.raised = "none"
        /\ \A i \in DatedMovements :
              LET pid == engine_movements.rows[i]["product_id"]
                  w1 == QuantityIn(pid, LatestDay - 30, LatestDay)
                  w2 == QuantityIn(pid, LatestDay - 60, LatestDay - 31)
              IN \E r \in RowsOf(movement_summary.frame) :
                    /\ r["product_id"] = pid
                    /\ r["w1_qty"] = w1
                    /\ r["w2_qty"] = w2
                    /\ r["trend_pct"] =
                          IF FPositive(w2) THEN FDiv(FSub(w1, w2), w2) ELSE None

\* Run well after the data ends: a product with quantity on both edges of
\* the first window and none in the second, its trend null, and a product
\* with quantity on the near edge of the second window only.
C16_Witness ==
    /\ movement_summary # NotRun
    /\ clock > TrendLatest
    /\ \E i \in DatedMovements : engine_movements.rows[i]["modified_date"].t = TrendLatest - 30
    /\ \E r \in RowsOf(movement_summary.frame) :
          r["w1_qty"] = Float(100) /\ r["w2_qty"] = Float(0) /\ r["trend_pct"] = None
    /\ \E r \in RowsOf(movement_summary.frame) :
          r["w1_qty"] = Float(0) /\ r["w2_qty"] = Float(50) /\ r["trend_pct"] = Float(-1)

\* ---------------------------------------------------------------------
\* C12: the inventory handed to the engines has quantity and unit_cost,
\* whatever columns were extracted, and none of InventoryMetrics.run,
\* WarehousePerformance.run and FinancialMetrics.run raises on it.
C12_SchemaDriftNotFatal ==
    ~empty(engine_inventory) =>
        /\ {"quantity", "unit_cost"} \subseteq engine_inventory.columns
        /\ inventory_summary.raised \in {"pending", "none"}
        /\ warehouse_summary.raised \in {"pending", "none"}
        /\ financial_summary.raised \in {"pending", "none"}

PastExtract == main_pc \in {"running", "finished"} \/ (main_pc = "failed" /\ pc[Runner] = "done")

====
